---- MODULE Spec2Model ----
(***************************************************************************)
(* Tool-info modules of BenchExec (ultimate-pa fork): the result           *)
(* classifiers, command builders and the value extractor of                *)
(*   benchexec/tools/ultimate_axivion.py  (Ultimate Axivion)               *)
(*   benchexec/tools/any.py               (generic pass-through tool)      *)
(*   benchexec/tools/smtinterpol.py       (SMTInterpol)                    *)
(* Output lines, options and file names are real strings; Python's        *)
(* substring test, str.split, int() and str.format are computed on them.   *)
(***************************************************************************)
EXTENDS Integers, Sequences, FiniteSets, TLC

VARIABLES call, ret, pc, fs, scanned, cache, probes, first

vars == <<call, ret, pc, fs, scanned, cache, probes, first>>

(***************************************************************************)
(* Bounds of the model.                                                    *)
(***************************************************************************)
MaxOutputLen == 2

MaxOptions == 2

MaxTasks == 2

MaxTmp == 2

MaxExtractLen == 3

MaxProbes == 2

(***************************************************************************)
(* Python values.                                                          *)
(***************************************************************************)
\* None is the empty tuple, any other optional value v is <<v>>.
None == <<>>

Some(v) == <<v>>

\* Outcome of a call: a returned value or a raised exception.
Return(v) == [kind |-> "return", value |-> v]

Raise(e, m) == [kind |-> "raise", exc |-> e, msg |-> m]

\* Sequences over S of length 0..n.
SeqUpTo(S, n) == UNION {[1..k -> S] : k \in 0..n}

(***************************************************************************)
(* Python string operations.                                               *)
(***************************************************************************)
\* sub occurs in s at index i (1-based).
OccursAt(sub, s, i) ==
    /\ i >= 1
    /\ i + Len(sub) - 1 <= Len(s)
    /\ SubSeq(s, i, i + Len(sub) - 1) = sub

\* Python: sub in s
Contains(sub, s) == \E i \in 1..(Len(s) - Len(sub) + 1) : OccursAt(sub, s, i)

\* Python: s.startswith(sub)
StartsWith(s, sub) == OccursAt(sub, s, 1)

\* Index of the first occurrence of the one-character string c in s at or
\* after index from, Len(s) + 1 when there is none.
RECURSIVE IndexOfChar(_, _, _)
IndexOfChar(c, s, from) ==
    IF from > Len(s) THEN Len(s) + 1
    ELSE IF SubSeq(s, from, from) = c THEN from
    ELSE IndexOfChar(c, s, from + 1)

\* Python: s.split(":")[1] for a string s that contains ":".
SplitColonField1(s) ==
    LET a == IndexOfChar(":", s, 1)
        b == IndexOfChar(":", s, a + 1)
    IN  SubSeq(s, a + 1, b - 1)

\* Python: s.strip() (blanks only).
RECURSIVE LStrip(_)
LStrip(s) ==
    IF Len(s) > 0 /\ SubSeq(s, 1, 1) = " " THEN LStrip(SubSeq(s, 2, Len(s))) ELSE s

RECURSIVE RStrip(_)
RStrip(s) ==
    IF Len(s) > 0 /\ SubSeq(s, Len(s), Len(s)) = " "
    THEN RStrip(SubSeq(s, 1, Len(s) - 1)) ELSE s

Strip(s) == RStrip(LStrip(s))

Digits == {"0", "1", "2", "3", "4", "5", "6", "7", "8", "9"}

DigitVal(c) ==
    CASE c = "0" -> 0 [] c = "1" -> 1 [] c = "2" -> 2 [] c = "3" -> 3
      [] c = "4" -> 4 [] c = "5" -> 5 [] c = "6" -> 6 [] c = "7" -> 7
      [] c = "8" -> 8 [] c = "9" -> 9

IsDigits(s) == Len(s) > 0 /\ \A i \in 1..Len(s) : SubSeq(s, i, i) \in Digits

RECURSIVE DigitsVal(_)
DigitsVal(s) ==
    IF Len(s) = 0 THEN 0
    ELSE 10 * DigitsVal(SubSeq(s, 1, Len(s) - 1)) + DigitVal(SubSeq(s, Len(s), Len(s)))

\* Python: int(s).  Blanks around the literal are ignored, a sign is allowed;
\* anything else raises ValueError.
PyInt(s) ==
    LET t == Strip(s)
        signed == Len(t) > 0 /\ SubSeq(t, 1, 1) \in {"+", "-"}
        d == IF signed THEN SubSeq(t, 2, Len(t)) ELSE t
    IN  IF ~IsDigits(d) THEN Raise("ValueError", "invalid literal for int()")
        ELSE IF signed /\ SubSeq(t, 1, 1) = "-" THEN Return(0 - DigitsVal(d))
        ELSE Return(DigitsVal(d))

(***************************************************************************)
(* benchexec.result: the verdicts of the closed taxonomy.                  *)
(***************************************************************************)
RESULT_TRUE_PROP == "TRUE_PROP"

RESULT_FALSE_PROP == "FALSE_PROP"

RESULT_FALSE_DEREF == "FALSE_DEREF"

RESULT_FALSE_FREE == "FALSE_FREE"

RESULT_FALSE_MEMTRACK == "FALSE_MEMTRACK"

RESULT_FALSE_TERMINATION == "FALSE_TERMINATION"

RESULT_UNKNOWN == "UNKNOWN"

(***************************************************************************)
(* ultimate_axivion.py: Tool.determine_result                              *)
(***************************************************************************)
\* Tool.__try_get(l, idx); indices are 1-based here.
try_get(l, idx) == IF idx <= Len(l) THEN Some(l[idx]) ELSE None

\* any(["LTL(G valid-...)" in prp for prp in output])
is_valid_deref(output) ==
    \E k \in 1..Len(output) : Contains("LTL(G valid-deref)", output[k])

is_valid_free(output) ==
    \E k \in 1..Len(output) : Contains("LTL(G valid-free)", output[k])

is_valid_memtrack(output) ==
    \E k \in 1..Len(output) : Contains("LTL(G valid-memtrack)", output[k])

is_valid_memcleanup(output) ==
    \E k \in 1..Len(output) : Contains("LTL(G valid-memcleanup)", output[k])

\* re.compile("error:.*possibly released by call to.*is a stack object")
\*   .match(line): anchored at the start of the line.
re_other_errors_match(line) ==
    /\ StartsWith(line, "error:")
    /\ \E i \in (Len("error:") + 1)..Len(line) :
          /\ OccursAt("possibly released by call to", line, i)
          /\ \E j \in (i + Len("possibly released by call to"))..Len(line) :
                OccursAt("is a stack object", line, j)

\* The two defect messages of the valid-deref family.
DerefError(line) ==
    \/ Contains("error: Pointer may be NULL at dereference", line)
    \/ Contains("error: Pointer is NULL at dereference", line)

\* The two defect messages of the valid-free family.
FreeError(line) ==
    \/ Contains("error: Dynamic memory released here possibly already released earlier", line)
    \/ Contains("error: Dynamic memory possibly used after it was previously released", line)

\* The defect message of the valid-memtrack family.
MemtrackError(line) == Contains("error: Call allocates possibly leaking memory", line)

\* "Number of compiler messages:" in line, and the next line exists, is not
\* empty and contains "Number of errors:".
CounterPairAt(output, idx) ==
    LET next == try_get(output, idx + 1)
    IN  /\ Contains("Number of compiler messages:", output[idx])
        /\ next # None
        /\ next[1] # ""
        /\ Contains("Number of errors:", next[1])

\* "cafeCC errors: {}".format(int(next.split(":")[1]))
CafeCCErrors(next) ==
    LET n == PyInt(SplitColonField1(next))
    IN  IF n.kind = "raise" THEN n
        ELSE Return("cafeCC errors: " \o ToString(n.value))

\* AxivionFallback without the test of valid-memcleanup.
AxivionFallback_no_memcleanup(props) == Return(RESULT_TRUE_PROP)

\* Lines 256-258: the verdict when the loop over the lines ends.
AxivionFallback(props) ==
    IF props.memcleanup THEN Return(RESULT_UNKNOWN) ELSE Return(RESULT_TRUE_PROP)

\* AxivionScan testing the messages of the valid-deref family whether or not
\* the property is declared.
RECURSIVE AxivionScan_ungated_deref(_, _, _)
AxivionScan_ungated_deref(output, idx, props) ==
    IF idx > Len(output) THEN AxivionFallback(props)
    ELSE LET line == output[idx]
         IN  IF CounterPairAt(output, idx) THEN CafeCCErrors(output[idx + 1])
             ELSE IF DerefError(line) THEN Return(RESULT_FALSE_DEREF)
             ELSE IF props.free /\ FreeError(line) THEN Return(RESULT_FALSE_FREE)
             ELSE IF props.memtrack /\ MemtrackError(line)
                  THEN Return(RESULT_FALSE_MEMTRACK)
             ELSE IF re_other_errors_match(line) THEN Return(RESULT_FALSE_PROP)
             ELSE AxivionScan_ungated_deref(output, idx + 1, props)

\* AxivionScan testing the stack-object pattern before the other families.
RECURSIVE AxivionScan_other_first(_, _, _)
AxivionScan_other_first(output, idx, props) ==
    IF idx > Len(output) THEN AxivionFallback(props)
    ELSE LET line == output[idx]
         IN  IF CounterPairAt(output, idx) THEN CafeCCErrors(output[idx + 1])
             ELSE IF re_other_errors_match(line) THEN Return(RESULT_FALSE_PROP)
             ELSE IF props.deref /\ DerefError(line) THEN Return(RESULT_FALSE_DEREF)
             ELSE IF props.free /\ FreeError(line) THEN Return(RESULT_FALSE_FREE)
             ELSE IF props.memtrack /\ MemtrackError(line)
                  THEN Return(RESULT_FALSE_MEMTRACK)
             ELSE AxivionScan_other_first(output, idx + 1, props)

\* Lines 228-258: the loop over the output lines, from line idx on.
RECURSIVE AxivionScan(_, _, _)
AxivionScan(output, idx, props) ==
    IF idx > Len(output) THEN AxivionFallback(props)
    ELSE LET line == output[idx]
         IN  IF CounterPairAt(output, idx) THEN CafeCCErrors(output[idx + 1])
             ELSE IF props.deref /\ DerefError(line) THEN Return(RESULT_FALSE_DEREF)
             ELSE IF props.free /\ FreeError(line) THEN Return(RESULT_FALSE_FREE)
             ELSE IF props.memtrack /\ MemtrackError(line)
                  THEN Return(RESULT_FALSE_MEMTRACK)
             ELSE IF re_other_errors_match(line) THEN Return(RESULT_FALSE_PROP)
             ELSE AxivionScan(output, idx + 1, props)

\* AxivionTimeoutOrSignal with the arguments of the last format swapped.
AxivionTimeoutOrSignal_swapped(returncode, returnsignal, isTimeout) ==
    IF isTimeout /\ returnsignal = 0
    THEN Return("Timeout(" \o ToString(returncode) \o ")")
    ELSE IF isTimeout
    THEN Return("Timeout(" \o ToString(returncode) \o ") by " \o ToString(returnsignal))
    ELSE Return("Terminated(" \o ToString(returnsignal) \o ") by " \o ToString(returncode))

\* Lines 212-217: the verdict of a run that timed out or was killed.
AxivionTimeoutOrSignal(returncode, returnsignal, isTimeout) ==
    IF isTimeout /\ returnsignal = 0
    THEN Return("Timeout(" \o ToString(returncode) \o ")")
    ELSE IF isTimeout
    THEN Return("Timeout(" \o ToString(returncode) \o ") by " \o ToString(returnsignal))
    ELSE Return("Terminated(" \o ToString(returncode) \o ") by " \o ToString(returnsignal))

\* axivion_determine_result looking at timeout and signal only when there
\* is no output.
axivion_determine_result_output_first(returncode, returnsignal, output, isTimeout) ==
    IF Len(output) = 0 /\ (isTimeout \/ returnsignal # 0)
    THEN AxivionTimeoutOrSignal(returncode, returnsignal, isTimeout)
    ELSE AxivionScan(output, 1,
                     [deref |-> is_valid_deref(output),
                      free |-> is_valid_free(output),
                      memtrack |-> is_valid_memtrack(output),
                      memcleanup |-> is_valid_memcleanup(output)])

axivion_determine_result(returncode, returnsignal, output, isTimeout) ==
    IF isTimeout \/ returnsignal # 0
    THEN AxivionTimeoutOrSignal(returncode, returnsignal, isTimeout)
    ELSE AxivionScan(output, 1,
                     [deref |-> is_valid_deref(output),
                      free |-> is_valid_free(output),
                      memtrack |-> is_valid_memtrack(output),
                      memcleanup |-> is_valid_memcleanup(output)])

(***************************************************************************)
(* any.py: Tool.determine_result                                           *)
(***************************************************************************)
\* any(s in last_line for s in ["YES", "TRUE", "Termination successfully shown!"])
AnyPositive(last_line) ==
    \E s \in {"YES", "TRUE", "Termination successfully shown!"} : Contains(s, last_line)

\* any(s in last_line for s in ["FALSE", "NO"])
AnyNegative(last_line) == \E s \in {"FALSE", "NO"} : Contains(s, last_line)

\* any_determine_result classifying the first line of the output.
any_determine_result_first_line(exit_code, output, was_timeout) ==
    IF Len(output) = 0
    THEN IF was_timeout /\ exit_code.signal = 0 THEN Return("Timeout")
         ELSE IF was_timeout THEN Return("Timeout by " \o ToString(exit_code.signal))
         ELSE IF exit_code.signal # 0
              THEN Return("Terminated by " \o ToString(exit_code.signal))
         ELSE Return(RESULT_UNKNOWN)
    ELSE LET last_line == output[1]
         IN  IF AnyPositive(last_line) THEN Return(RESULT_TRUE_PROP)
             ELSE IF AnyNegative(last_line) THEN Return(RESULT_FALSE_TERMINATION)
             ELSE Return(last_line)

any_determine_result(exit_code, output, was_timeout) ==
    IF Len(output) = 0
    THEN IF was_timeout /\ exit_code.signal = 0 THEN Return("Timeout")
         ELSE IF was_timeout THEN Return("Timeout by " \o ToString(exit_code.signal))
         ELSE IF exit_code.signal # 0
              THEN Return("Terminated by " \o ToString(exit_code.signal))
         ELSE Return(RESULT_UNKNOWN)
    ELSE LET last_line == output[Len(output)]
         IN  IF AnyPositive(last_line) THEN Return(RESULT_TRUE_PROP)
             ELSE IF AnyNegative(last_line) THEN Return(RESULT_FALSE_TERMINATION)
             ELSE Return(last_line)

(***************************************************************************)
(* any.py: Tool.executable                                                 *)
(***************************************************************************)
\* os.environ[name], environ being the value of the variable or None when
\* the variable is not set.
os_environ_get(environ, name) ==
    IF environ = None THEN Raise("KeyError", name) ELSE Return(environ[1])

\* Lines 46-50.
any_executable(environ) ==
    LET executable == os_environ_get(environ, "BENCHEXEC_ANYTOOL_EXE")
    IN  IF executable.kind = "raise" THEN executable
        ELSE IF executable.value # "" THEN Return(executable.value)
        ELSE Raise("MissingEnvironmentVariable", "BENCHEXEC_ANYTOOL_EXE")

(***************************************************************************)
(* ultimate_axivion.py and smtinterpol.py: Tool.cmdline                    *)
(***************************************************************************)
\* Tool.name()
axivion_name == "Ultimate Axivion"

smtinterpol_name == "SMTInterpol"

\* util.find_executable("cafeCC"): the path found on the search path, or the
\* MissingExecutable failure when there is none.
find_executable(found) ==
    IF found = None THEN Raise("MissingExecutable", "Could not find executable")
    ELSE Return(found[1])

\* Name of the n-th file of the directory of temporary files.
TmpPath(n) == "/tmp/tmp" \o ToString(n)

TmpPaths == {TmpPath(n) : n \in 1..MaxTmp}

\* Lines 187-188: the argument vector, script being the name of the
\* temporary script.  A property file that is None or "" is not appended.
axivion_call(script, options, tasks, propertyfile) ==
    LET c == <<script>> \o options \o tasks
    IN  IF propertyfile # None /\ propertyfile[1] # "" THEN c \o <<propertyfile[1]>> ELSE c

\* Lines 189-191.
axivion_unsupported(tasks) ==
    Raise("UnsupportedFeatureException",
          axivion_name \o " does not support " \o ToString(Len(tasks)) \o " input files.")

\* smtinterpol_cmdline with the input files before the options.
smtinterpol_cmdline_tasks_first(executable, options, tasks, optimize) ==
    IF ~optimize /\ ~(Len(tasks) <= 1)
    THEN Raise("AssertionError", "only one inputfile supported")
    ELSE Return(<<executable, "-jar", "smtinterpol.jar">> \o tasks \o options)

\* smtinterpol.py lines 40-41.  The assert statement is skipped when the
\* interpreter runs with -O.
smtinterpol_cmdline(executable, options, tasks, optimize) ==
    IF ~optimize /\ ~(Len(tasks) <= 1)
    THEN Raise("AssertionError", "only one inputfile supported")
    ELSE Return(<<executable, "-jar", "smtinterpol.jar">> \o options \o tasks)

\* any.py lines 55-56: [executable] + options + [*task.input_files]
any_cmdline(executable, options, task) == <<executable>> \o options \o task.input_files

(***************************************************************************)
(* ultimate_axivion.py and smtinterpol.py: Tool.version                    *)
(***************************************************************************)
Whitespace == {" ", "\n", "\t"}

\* Python: s.strip()
RECURSIVE PyStrip(_)
PyStrip(s) ==
    IF Len(s) > 0 /\ SubSeq(s, 1, 1) \in Whitespace THEN PyStrip(SubSeq(s, 2, Len(s)))
    ELSE IF Len(s) > 0 /\ SubSeq(s, Len(s), Len(s)) \in Whitespace
         THEN PyStrip(SubSeq(s, 1, Len(s) - 1))
    ELSE s

\* Python: s.split(c) for a one-character separator c.
RECURSIVE PySplit(_, _)
PySplit(s, c) ==
    LET i == IndexOfChar(c, s, 1)
    IN  IF i > Len(s) THEN <<s>>
        ELSE <<SubSeq(s, 1, i - 1)>> \o PySplit(SubSeq(s, i + 1, Len(s)), c)

\* Python: s.splitlines(), the lines ending with "\n".
PySplitLines(s) ==
    LET parts == PySplit(s, "\n")
    IN  IF parts[Len(parts)] = "" THEN SubSeq(parts, 1, Len(parts) - 1) ELSE parts

\* Python: s.replace(old, ""), old not empty.
RECURSIVE PyRemove(_, _)
PyRemove(s, old) ==
    IF Len(s) = 0 THEN s
    ELSE IF OccursAt(old, s, 1) THEN PyRemove(SubSeq(s, Len(old) + 1, Len(s)), old)
    ELSE SubSeq(s, 1, 1) \o PyRemove(SubSeq(s, 2, Len(s)), old)

\* Python: sep.join(parts)
RECURSIVE PyJoin(_, _)
PyJoin(sep, parts) ==
    IF Len(parts) = 0 THEN ""
    ELSE IF Len(parts) = 1 THEN parts[1]
    ELSE parts[1] \o sep \o PyJoin(sep, Tail(parts))

\* Tool._version_from_tool(popen_arg): probe is what running the command
\* gives: "oserror" when it cannot be launched, else its exit code and output.
version_from_tool(probe) ==
    IF probe.kind = "oserror" THEN ""
    ELSE IF probe.returncode # 0 THEN ""
    ELSE PyStrip(probe.stdout)

\* Lines 72-77: "_".join([i.replace("(", "").replace(")", "").replace(" ", "")
\*                        for i in axivion_version_raw.split(sep=",")])
axivion_version_str(axivion_version_raw) ==
    LET parts == PySplit(axivion_version_raw, ",")
    IN  PyJoin("_", [k \in 1..Len(parts) |->
                        PyRemove(PyRemove(PyRemove(parts[k], "("), ")"), " ")])

\* re.compile(r"^This is Ultimate (.*)$", re.MULTILINE).search(raw): None,
\* or group 1 of the match on the first line that starts with the text.
ultimate_version_search(ult_version_raw) ==
    LET lines == PySplit(ult_version_raw, "\n")
        hits == { k \in 1..Len(lines) : StartsWith(lines[k], "This is Ultimate ") }
    IN  IF hits = {} THEN None
        ELSE LET k == CHOOSE m \in hits : \A n \in hits : m <= n
             IN  Some(SubSeq(lines[k], Len("This is Ultimate ") + 1, Len(lines[k])))

\* ultimate_axivion.py lines 64-102, the body of version(): probe1 and probe2
\* are what the two commands give, java and dir the values of ULTIMATE_JAVA
\* and ULTIMATE_DIR.
axivion_version_body(probe1, java, dir, probe2) ==
    LET axivion_version_raw == version_from_tool(probe1)
        ult_version_raw == version_from_tool(probe2)
        match == ultimate_version_search(ult_version_raw)
    IN  IF os_environ_get(java, "ULTIMATE_JAVA").kind = "raise"
        THEN os_environ_get(java, "ULTIMATE_JAVA")
        ELSE IF os_environ_get(dir, "ULTIMATE_DIR").kind = "raise"
        THEN os_environ_get(dir, "ULTIMATE_DIR")
        ELSE IF match = None
        THEN Raise("AttributeError", "'NoneType' object has no attribute 'group'")
        ELSE Return(axivion_version_str(axivion_version_raw) \o "/" \o match[1])

\* smtinterpol.py lines 24-34: probe is what subprocess.run gives.
smtinterpol_version(probe) ==
    IF probe.kind = "oserror" THEN Raise("OSError", "No such file or directory")
    ELSE LET lines == PySplitLines(probe.stderr)
             hits == { k \in 1..Len(lines) : StartsWith(lines[k], "SMTInterpol") }
         IN  IF hits = {} THEN Raise("StopIteration", "")
             ELSE LET k == CHOOSE m \in hits : \A n \in hits : m <= n
                  IN  Return(PyStrip(PyRemove(lines[k], "SMTInterpol")))

(***************************************************************************)
(* json.loads on the descriptors: an object whose members are strings or   *)
(* numbers, or a bare string or number.  Values are tagged with their      *)
(* Python type.                                                            *)
(***************************************************************************)
\* The character of s at index i, "" outside of s.
Ch(s, i) == IF i >= 1 /\ i <= Len(s) THEN SubSeq(s, i, i) ELSE ""

RECURSIVE SkipWs(_, _)
SkipWs(s, i) == IF Ch(s, i) = " " THEN SkipWs(s, i + 1) ELSE i

JsonFail == [ok |-> FALSE]

\* The maximal run of digits of s that starts at index i.
RECURSIVE DigitRun(_, _)
DigitRun(s, i) == IF Ch(s, i) \in Digits THEN Ch(s, i) \o DigitRun(s, i + 1) ELSE ""

\* The rest of a JSON string whose opening quote is before index i; acc is
\* the part decoded so far.  (The escapes \b, \f, \n, \r, \t and \u do not
\* occur in the descriptors of the model.)
RECURSIVE JsonStringTail(_, _, _)
JsonStringTail(s, i, acc) ==
    IF i > Len(s) THEN JsonFail
    ELSE IF Ch(s, i) = "\"" THEN [ok |-> TRUE, val |-> [t |-> "str", v |-> acc], next |-> i + 1]
    ELSE IF Ch(s, i) = "\\"
         THEN IF Ch(s, i + 1) \in {"\"", "\\", "/"}
              THEN JsonStringTail(s, i + 2, acc \o Ch(s, i + 1))
              ELSE JsonFail
    ELSE JsonStringTail(s, i + 1, acc \o Ch(s, i))

\* A string or a number at index i.
JsonScalar(s, i) ==
    IF Ch(s, i) = "\"" THEN JsonStringTail(s, i + 1, "")
    ELSE LET d == DigitRun(s, i)
         IN  IF d = "" \/ (Len(d) > 1 /\ Ch(d, 1) = "0") THEN JsonFail
             ELSE [ok |-> TRUE, val |-> [t |-> "int", v |-> DigitsVal(d)],
                   next |-> i + Len(d)]

\* The members of an object from index i on; obj holds the members read so
\* far.  A repeated key keeps its last value.
RECURSIVE JsonMembers(_, _, _)
JsonMembers(s, i, obj) ==
    LET k == SkipWs(s, i)
        key == IF Ch(s, k) = "\"" THEN JsonStringTail(s, k + 1, "") ELSE JsonFail
        c == IF key.ok THEN SkipWs(s, key.next) ELSE 0
        val == IF key.ok /\ Ch(s, c) = ":" THEN JsonScalar(s, SkipWs(s, c + 1)) ELSE JsonFail
        e == IF val.ok THEN SkipWs(s, val.next) ELSE 0
        obj2 == (key.val.v :> val.val) @@ obj
    IN  IF ~val.ok THEN JsonFail
        ELSE IF Ch(s, e) = "," THEN JsonMembers(s, e + 1, obj2)
        ELSE IF Ch(s, e) = "}" THEN [ok |-> TRUE, val |-> [t |-> "dict", v |-> obj2],
                                     next |-> e + 1]
        ELSE JsonFail

JsonValue(s, i) ==
    IF Ch(s, i) = "{"
    THEN IF Ch(s, SkipWs(s, i + 1)) = "}"
         THEN [ok |-> TRUE, val |-> [t |-> "dict", v |-> <<>>], next |-> SkipWs(s, i + 1) + 1]
         ELSE JsonMembers(s, i + 1, <<>>)
    ELSE JsonScalar(s, i)

\* json.loads(identifier): one value, blanks around it, nothing else.
json_loads(identifier) ==
    LET r == JsonValue(identifier, SkipWs(identifier, 1))
    IN  IF r.ok /\ SkipWs(identifier, r.next) = Len(identifier) + 1
        THEN Return(r.val)
        ELSE Raise("JSONDecodeError", identifier)

(***************************************************************************)
(* re.compile and Pattern.search on the expressions of the descriptors:    *)
(* a literal followed by nothing, by \d+, by (\d+) or by (\d+)?            *)
(***************************************************************************)
\* Index of the first "(" or "\" of expr, Len(expr) + 1 when there is none.
RECURSIVE LiteralEnd(_, _)
LiteralEnd(expr, i) ==
    IF i > Len(expr) \/ Ch(expr, i) \in {"(", "\\"} THEN i ELSE LiteralEnd(expr, i + 1)

re_compile(expr) ==
    LET e == LiteralEnd(expr, 1)
        lit == SubSeq(expr, 1, e - 1)
        rest == SubSeq(expr, e, Len(expr))
    IN  CASE rest = "" -> Return([lit |-> lit, digits |-> "none", ngroups |-> 0])
          [] rest = "\\d+" -> Return([lit |-> lit, digits |-> "plus", ngroups |-> 0])
          [] rest = "(\\d+)" -> Return([lit |-> lit, digits |-> "plus", ngroups |-> 1])
          [] rest = "(\\d+)?" -> Return([lit |-> lit, digits |-> "optional", ngroups |-> 1])
          [] rest = "(" -> Raise("re.error", "missing ), unterminated subpattern")

\* Start indices of the matches of the compiled pattern rx in line.
MatchStarts(rx, line) ==
    { i \in 1..(Len(line) + 1) :
        /\ OccursAt(rx.lit, line, i)
        /\ rx.digits = "plus" => Ch(line, i + Len(rx.lit)) \in Digits }

\* rx.search(line): None, or the leftmost match with its groups; a group
\* that took no part in the match is None.
re_search(rx, line) ==
    IF MatchStarts(rx, line) = {} THEN None
    ELSE LET i == CHOOSE m \in MatchStarts(rx, line) :
                      \A n \in MatchStarts(rx, line) : m <= n
             run == IF rx.digits = "none" THEN "" ELSE DigitRun(line, i + Len(rx.lit))
         IN  Some([start |-> i,
                   groups |-> IF rx.ngroups = 0 THEN <<>>
                              ELSE IF run = "" THEN <<None>> ELSE <<Some(run)>>])

(***************************************************************************)
(* smtinterpol.py: Tool.get_value_from_output                              *)
(***************************************************************************)
\* reversed(output)
reversed(output) == [k \in 1..Len(output) |-> output[Len(output) + 1 - k]]

\* RegexLoop going on to the next line when the group of a match is None.
RECURSIVE RegexLoop_skip_none(_, _, _)
RegexLoop_skip_none(rx, output, i) ==
    IF i >= Len(output) THEN [ret |-> Return(None), scanned |-> i]
    ELSE LET match == re_search(rx, output[i + 1])
         IN  IF match # None /\ Len(match[1].groups) > 0 /\ match[1].groups[1] # None
             THEN [ret |-> Return(match[1].groups[1]), scanned |-> i + 1]
             ELSE RegexLoop_skip_none(rx, output, i + 1)

\* Lines 60-67: the loop over the lines, i lines having been scanned.  The
\* outcome and the number of lines scanned.
RECURSIVE RegexLoop(_, _, _)
RegexLoop(rx, output, i) ==
    IF i >= Len(output) THEN [ret |-> Return(None), scanned |-> i]
    ELSE LET match == re_search(rx, output[i + 1])
         IN  IF match # None /\ Len(match[1].groups) > 0
             THEN [ret |-> Return(match[1].groups[1]), scanned |-> i + 1]
             ELSE RegexLoop(rx, output, i + 1)

\* Tool._get_value_from_output_regex(mode, output, expr)
get_value_from_output_regex(mode, output, expr) ==
    IF expr.t # "str"
    THEN [ret |-> Raise("TypeError", "first argument must be string or compiled pattern"),
          scanned |-> 0]
    ELSE LET regex == re_compile(expr.v)
         IN  IF regex.kind = "raise" THEN [ret |-> regex, scanned |-> 0]
             ELSE RegexLoop(regex.value, output, 0)

\* get_value_parsed scanning forward in mode LastMatch too.
get_value_parsed_no_reverse(output, val) ==
    IF val.t # "dict"
    THEN [ret |-> Raise("AttributeError", "object has no attribute 'get'"), scanned |-> 0]
    ELSE LET mode == IF "Type" \in DOMAIN val.v THEN val.v["Type"]
                     ELSE [t |-> "str", v |-> "FirstMatch"]
         IN  IF "Expr" \notin DOMAIN val.v
             THEN [ret |-> Raise("KeyError", "Expr"), scanned |-> 0]
             ELSE IF mode.t = "str" /\ mode.v \in {"FirstMatch", "LastMatch"}
             THEN get_value_from_output_regex(mode, output, val.v["Expr"])
             ELSE [ret |-> Raise("AssertionError", "Unknown column mode"), scanned |-> 0]

\* Lines 49-56, val being the parsed descriptor.
get_value_parsed(output, val) ==
    IF val.t # "dict"
    THEN [ret |-> Raise("AttributeError", "object has no attribute 'get'"), scanned |-> 0]
    ELSE LET mode == IF "Type" \in DOMAIN val.v THEN val.v["Type"]
                     ELSE [t |-> "str", v |-> "FirstMatch"]
         IN  IF "Expr" \notin DOMAIN val.v
             THEN [ret |-> Raise("KeyError", "Expr"), scanned |-> 0]
             ELSE IF mode.t = "str" /\ mode.v = "FirstMatch"
             THEN get_value_from_output_regex(mode, output, val.v["Expr"])
             ELSE IF mode.t = "str" /\ mode.v = "LastMatch"
             THEN get_value_from_output_regex(mode, reversed(output), val.v["Expr"])
             ELSE [ret |-> Raise("AssertionError", "Unknown column mode"), scanned |-> 0]

\* Tool.get_value_from_output(output, identifier)
get_value_from_output(output, identifier) ==
    LET val == json_loads(identifier)
    IN  IF val.kind = "raise"
        THEN [ret |-> Raise("AssertionError", "Invalid JSON"), scanned |-> 0]
        ELSE get_value_parsed(output, val.value)

(***************************************************************************)
(* The inputs of the model.                                                *)
(***************************************************************************)
ReturnCodes == {0, 1}

Signals == {0, 9}

\* Output lines of a run of Ultimate Axivion: the property file echoed by the
\* script, messages of axivion_analysis and the counters of cafeCC.
AxivionLines ==
    { "CHECK( init(main()), LTL(G valid-deref) )",
      "CHECK( init(main()), LTL(G valid-free) )",
      "CHECK( init(main()), LTL(G valid-memtrack) )",
      "CHECK( init(main()), LTL(G valid-memcleanup) )",
      "a.c:3: error: Pointer may be NULL at dereference",
      "a.c:4: error: Pointer is NULL at dereference",
      "a.c:5: error: Dynamic memory released here possibly already released earlier",
      "a.c:6: error: Dynamic memory possibly used after it was previously released",
      "a.c:7: error: Call allocates possibly leaking memory",
      "error: p possibly released by call to free is a stack object",
      "a.c:8: error: p possibly released by call to free is a stack object",
      "error: Pointer is NULL at dereference; error: Dynamic memory possibly used after it was previously released; error: Call allocates possibly leaking memory; p possibly released by call to free is a stack object",
      "Number of compiler messages: 3",
      "Number of errors: 2",
      "Number of errors: 0",
      "Number of errors: abc",
      "result: unknown" }

\* Output lines of a run of an arbitrary tool.
AnyLines ==
    { "YES", "TRUE", "Termination successfully shown! TRUE", "FALSE(unreach-call)",
      "NO", "UNKNOWN", "YES or NO", "result: unknown", "" }

AxivionDetermineResultCalls ==
    { [op |-> "axivion.determine_result", returncode |-> rc, returnsignal |-> sig,
       output |-> out, isTimeout |-> t] :
         rc \in ReturnCodes, sig \in Signals,
         out \in SeqUpTo(AxivionLines, MaxOutputLen), t \in BOOLEAN }

AnyDetermineResultCalls ==
    { [op |-> "any.determine_result", exit_code |-> [value |-> rc, signal |-> sig],
       output |-> out, was_timeout |-> t] :
         rc \in ReturnCodes, sig \in Signals,
         out \in SeqUpTo(AnyLines, MaxOutputLen), t \in BOOLEAN }

Executables == {"/opt/axivion/bin/rfgscript", "/usr/bin/java"}

Options == {"-v", "-q"}

InputFiles == {"a.c", "b.c"}

PropertyFiles == {None, Some(""), Some("valid-memsafety.prp")}

\* cmdline of Ultimate Axivion; cafe_cc is what the search path holds for
\* cafeCC when the call is made.
AxivionCmdlineCalls ==
    { [op |-> "axivion.cmdline", executable |-> exe, options |-> opts, tasks |-> tasks,
       propertyfile |-> prp, cafe_cc |-> cc] :
         exe \in Executables, opts \in SeqUpTo(Options, MaxOptions),
         tasks \in SeqUpTo(InputFiles, MaxTasks), prp \in PropertyFiles,
         cc \in {None, Some("/opt/axivion/bin/cafeCC")} }

\* cmdline of SMTInterpol; optimize tells whether the interpreter runs with -O.
SmtinterpolCmdlineCalls ==
    { [op |-> "smtinterpol.cmdline", executable |-> exe, options |-> opts,
       tasks |-> tasks, propertyfile |-> prp, optimize |-> o] :
         exe \in Executables, opts \in SeqUpTo(Options, MaxOptions),
         tasks \in SeqUpTo(InputFiles, MaxTasks), prp \in PropertyFiles,
         o \in BOOLEAN }

\* Output lines of a run of SMTInterpol.
ExtractLines == {"sat", "time=5", "time=9 time=12", "t=", "t=7 time=3"}

\* Descriptors handed to get_value_from_output.
Identifiers ==
    { "{\"Type\":\"FirstMatch\",\"Expr\":\"time=(\\\\d+)\"}",
      "{\"Type\":\"LastMatch\",\"Expr\":\"time=(\\\\d+)\"}",
      "{\"Expr\":\"time=(\\\\d+)\"}",
      "{\"Type\":\"FirstMatch\",\"Expr\":\"t=(\\\\d+)?\"}",
      "{ \"Type\" : \"LastMatch\", \"Expr\": \"t=(\\\\d+)?\" }",
      "{\"Type\":\"LastMatch\",\"Expr\":\"time=\\\\d+\"}",
      "{\"Type\":\"FirstMatch\",\"Expr\":\"(\"}",
      "{\"Type\":\"FirstMatch\",\"Expr\":7}",
      "{\"Type\":\"FirstMatch\"}",
      "{\"Type\":\"LastMatch\"}",
      "{}",
      "{\"Type\":\"AllMatches\",\"Expr\":\"time=(\\\\d+)\"}",
      "{\"Type\":1,\"Expr\":\"time=(\\\\d+)\"}",
      "{\"Type\":\"AllMatches\"}",
      "{\"Type\":\"FirstMatch\",\"Expr\":",
      "Type=FirstMatch",
      "7" }

GetValueCalls ==
    { [op |-> "smtinterpol.get_value_from_output", output |-> out, identifier |-> id] :
         out \in SeqUpTo(ExtractLines, MaxExtractLen), id \in Identifiers }

\* cmdline of the pass-through tool.
AnyCmdlineCalls ==
    { [op |-> "any.cmdline", executable |-> exe, options |-> opts,
       task |-> [input_files |-> files]] :
         exe \in Executables, opts \in SeqUpTo(Options, MaxOptions),
         files \in SeqUpTo(InputFiles, MaxTasks) }

\* Values of an environment variable: not set, empty, a path.
EnvValues == {None, Some(""), Some("/opt/tool/bin/tool")}

AnyExecutableCalls == { [op |-> "any.executable", environ |-> e] : e \in EnvValues }

Calls ==
    AxivionDetermineResultCalls \cup AnyDetermineResultCalls \cup AxivionCmdlineCalls
        \cup SmtinterpolCmdlineCalls \cup GetValueCalls \cup AnyExecutableCalls
        \cup AnyCmdlineCalls

\* The directory of temporary files before the call: any files, one name at
\* least being free.
FsStates == SUBSET TmpPaths \ {TmpPaths}

(***************************************************************************)
(* The state machine: the harness has issued one call on a tool-info       *)
(* module (pc = "called"); the module's method runs to completion and      *)
(* leaves its outcome in ret (pc = "done").  fs is the set of files in the *)
(* directory of temporary files.                                           *)
(***************************************************************************)
\* What running a probe command gives.
OSError == [kind |-> "oserror"]

\* The second probe of the Axivion adapter is not reached when a variable of
\* the environment is missing.
NotRun == [kind |-> "notrun"]

Exited(returncode, stdout) ==
    [kind |-> "exit", returncode |-> returncode, stdout |-> stdout]

AxivionProbes ==
    {OSError, Exited(1, ""), Exited(0, "(7, 0, 0, 4283)\n")}

UltimateProbes ==
    {OSError, Exited(1, "This is Ultimate 0.2.1\n"),
     Exited(0, "WARNING: illegal reflective access\nThis is Ultimate 0.2.1\n"),
     Exited(0, "usage: Ultimate [options]\n")}

SmtinterpolProbes ==
    {OSError,
     [kind |-> "exit", returncode |-> 0, stderr |-> "SMTInterpol 2.5-1256-g55d6ba76\n"],
     [kind |-> "exit", returncode |-> 1, stderr |-> "SMTInterpol 2.5-1256-g55d6ba76\n"],
     [kind |-> "exit", returncode |-> 1,
      stderr |-> "Error: Unable to access jarfile smtinterpol.jar\n"]}

JavaPaths == {None, Some("/usr/bin/java")}

UltimateDirs == {None, Some("/opt/ultimate")}

\* The adapters whose version() runs a probe.
Adapters == {"axivion", "smtinterpol"}

\* cache is the table of functools.lru_cache on the Axivion adapter's version:
\* executable -> returned string.  probes counts, per adapter instance, the
\* executions of the body of version(); first keeps what the first call on
\* the instance gave.
NoProbes == [a \in Adapters |-> 0]

NoFirst == [a \in Adapters |-> None]

Remember(a, r) == IF first[a] = None THEN [first EXCEPT ![a] = Some(r)] ELSE first

Init ==
    /\ call \in Calls
    /\ ret = None
    /\ pc = "called"
    /\ fs \in IF call.op = "axivion.cmdline" THEN FsStates ELSE {{}}
    /\ scanned = 0
    /\ cache = <<>>
    /\ probes = NoProbes
    /\ first = NoFirst

AxivionDetermineResult ==
    /\ pc = "called"
    /\ call.op = "axivion.determine_result"
    /\ ret' = axivion_determine_result(call.returncode, call.returnsignal,
                                       call.output, call.isTimeout)
    /\ pc' = "done"
    /\ UNCHANGED <<call, fs, scanned, cache, probes, first>>

AnyDetermineResult ==
    /\ pc = "called"
    /\ call.op = "any.determine_result"
    /\ ret' = any_determine_result(call.exit_code, call.output, call.was_timeout)
    /\ pc' = "done"
    /\ UNCHANGED <<call, fs, scanned, cache, probes, first>>

\* Lines 158-191.  The temporary directory of line 161 is removed again as
\* soon as its object is dropped, which is before the method returns.  The
\* harness may repeat a call of cmdline with the same arguments; a call that
\* finds no free name for its script is not modelled.
AxivionCmdline ==
    /\ pc \in {"called", "done"}
    /\ call.op = "axivion.cmdline"
    /\ IF Len(call.tasks) = 1
       THEN IF find_executable(call.cafe_cc).kind = "raise"
            THEN /\ ret' = find_executable(call.cafe_cc)
                 /\ fs' = fs
            ELSE \E script \in TmpPaths \ fs :
                    /\ fs' = fs \cup {script}
                    /\ ret' = Return(axivion_call(script, call.options, call.tasks,
                                                  call.propertyfile))
       ELSE /\ ret' = axivion_unsupported(call.tasks)
            /\ fs' = fs
    /\ pc' = "done"
    /\ UNCHANGED <<call, scanned, cache, probes, first>>

SmtinterpolCmdline ==
    /\ pc \in {"called", "done"}
    /\ call.op = "smtinterpol.cmdline"
    /\ ret' = smtinterpol_cmdline(call.executable, call.options, call.tasks, call.optimize)
    /\ pc' = "done"
    /\ UNCHANGED <<call, fs, scanned, cache, probes, first>>

GetValueFromOutput ==
    /\ pc = "called"
    /\ call.op = "smtinterpol.get_value_from_output"
    /\ LET r == get_value_from_output(call.output, call.identifier)
       IN  /\ ret' = r.ret
           /\ scanned' = r.scanned
    /\ pc' = "done"
    /\ UNCHANGED <<call, fs, cache, probes, first>>

AnyCmdline ==
    /\ pc \in {"called", "done"}
    /\ call.op = "any.cmdline"
    /\ ret' = Return(any_cmdline(call.executable, call.options, call.task))
    /\ pc' = "done"
    /\ UNCHANGED <<call, fs, scanned, cache, probes, first>>

AnyExecutable ==
    /\ pc = "called"
    /\ call.op = "any.executable"
    /\ ret' = any_executable(call.environ)
    /\ pc' = "done"
    /\ UNCHANGED <<call, fs, scanned, cache, probes, first>>

(***************************************************************************)
(* A sequence of version() calls on one instance of each adapter.          *)
(***************************************************************************)
VersionInit ==
    /\ call = [op |-> "none"]
    /\ ret = None
    /\ pc = "idle"
    /\ fs = {}
    /\ scanned = 0
    /\ cache = <<>>
    /\ probes = NoProbes
    /\ first = NoFirst

\* functools.lru_cache() around lines 58-102: a hit returns the stored string
\* and does not run the body; a miss runs it and stores what it returns; a
\* call that raises stores nothing.
AxivionVersion ==
    \E executable \in Executables :
        /\ IF executable \in DOMAIN cache
           THEN /\ call' = [op |-> "axivion.version", executable |-> executable,
                            hit |-> TRUE]
                /\ ret' = Return(cache[executable])
                /\ first' = Remember("axivion", Return(cache[executable]))
                /\ UNCHANGED <<cache, probes>>
           ELSE /\ probes["axivion"] < MaxProbes
                /\ \E probe1 \in AxivionProbes, java \in JavaPaths, dir \in UltimateDirs :
                   \E probe2 \in IF java = None \/ dir = None THEN {NotRun}
                                 ELSE UltimateProbes :
                     LET r == axivion_version_body(probe1, java, dir, probe2)
                     IN  /\ call' = [op |-> "axivion.version",
                                     executable |-> executable, hit |-> FALSE,
                                     probe1 |-> probe1, java |-> java, dir |-> dir,
                                     probe2 |-> probe2]
                         /\ ret' = r
                         /\ cache' = IF r.kind = "return"
                                     THEN (executable :> r.value) @@ cache
                                     ELSE cache
                         /\ probes' = [probes EXCEPT !["axivion"] = @ + 1]
                         /\ first' = Remember("axivion", r)
        /\ pc' = "done"
        /\ UNCHANGED <<fs, scanned>>

\* smtinterpol.py lines 23-34: every call runs the probe.
SmtinterpolVersion ==
    /\ probes["smtinterpol"] < MaxProbes
    /\ \E executable \in Executables, probe \in SmtinterpolProbes :
         LET r == smtinterpol_version(probe)
         IN  /\ call' = [op |-> "smtinterpol.version", executable |-> executable,
                         hit |-> FALSE, probe |-> probe]
             /\ ret' = r
             /\ first' = Remember("smtinterpol", r)
    /\ probes' = [probes EXCEPT !["smtinterpol"] = @ + 1]
    /\ pc' = "done"
    /\ UNCHANGED <<fs, scanned, cache>>

VersionNext ==
    \/ AxivionVersion
    \/ SmtinterpolVersion

SpecVersion == VersionInit /\ [][VersionNext]_vars

Next ==
    \/ AxivionDetermineResult
    \/ AnyDetermineResult
    \/ AxivionCmdline
    \/ SmtinterpolCmdline
    \/ GetValueFromOutput
    \/ AnyExecutable
    \/ AnyCmdline

Spec == Init /\ [][Next]_vars

(***************************************************************************)
(* Properties of the result classifiers.                                   *)
(***************************************************************************)
AxivionClassified == pc = "done" /\ call.op = "axivion.determine_result"

AnyClassified == pc = "done" /\ call.op = "any.determine_result"

\* C1: Ultimate Axivion, run timed out: the verdict is "Timeout(<exit code>)",
\* followed by " by <signal>" exactly when the signal is not 0, and it is the
\* verdict of the same run with no output at all.
C1_AxivionTimeoutDominates ==
    (AxivionClassified /\ call.isTimeout) =>
        /\ ret.kind = "return"
        /\ StartsWith(ret.value, "Timeout(" \o ToString(call.returncode) \o ")")
        /\ IF call.returnsignal = 0
           THEN Len(ret.value) = Len("Timeout(" \o ToString(call.returncode) \o ")")
           ELSE ret.value = "Timeout(" \o ToString(call.returncode) \o ") by "
                                \o ToString(call.returnsignal)
        /\ ret = axivion_determine_result(call.returncode, call.returnsignal, <<>>, TRUE)

\* A run that timed out and was killed by a signal, its output declaring
\* valid-deref and reporting a NULL dereference.
C1_Witness ==
    /\ AxivionClassified
    /\ call.isTimeout
    /\ call.returnsignal = 9
    /\ Len(call.output) = 2
    /\ is_valid_deref(call.output)
    /\ DerefError(call.output[2])
    /\ ret = Return("Timeout(1) by 9")

\* C2: pass-through tool, run timed out: the verdict is "Timeout" or
\* "Timeout by <signal>", whatever the output lines are.
C2_AnyTimeoutDominates ==
    (AnyClassified /\ call.was_timeout) =>
        /\ ret.kind = "return"
        /\ ret.value = IF call.exit_code.signal = 0 THEN "Timeout"
                       ELSE "Timeout by " \o ToString(call.exit_code.signal)

\* C3: Ultimate Axivion, run not timed out and killed by signal s: the
\* verdict is "Terminated(<exit code>) by s", and it is the verdict of the
\* same run with no output at all.
C3_AxivionSignalVerdict ==
    (AxivionClassified /\ ~call.isTimeout /\ call.returnsignal # 0) =>
        /\ ret = Return("Terminated(" \o ToString(call.returncode) \o ") by "
                            \o ToString(call.returnsignal))
        /\ ret = axivion_determine_result(call.returncode, call.returnsignal, <<>>, FALSE)

\* A run killed by signal 9 whose output holds the counters of cafeCC.
C3_Witness ==
    /\ AxivionClassified
    /\ ~call.isTimeout
    /\ call.returnsignal = 9
    /\ Len(call.output) = 2
    /\ CounterPairAt(call.output, 1)
    /\ ret = Return("Terminated(0) by 9")

\* C4: determine_result of Ultimate Axivion and of the pass-through tool
\* returns a verdict for every run, it never raises.
C4_DetermineResultTotal ==
    (AxivionClassified \/ AnyClassified) => ret.kind = "return"

\* Some line of the output matches a pattern family that is evaluated: one
\* whose property is declared, or the stack-object pattern.
C5_FamilyMatched(output) ==
    \E k \in 1..Len(output) :
        \/ is_valid_deref(output) /\ DerefError(output[k])
        \/ is_valid_free(output) /\ FreeError(output[k])
        \/ is_valid_memtrack(output) /\ MemtrackError(output[k])
        \/ re_other_errors_match(output[k])

\* C5: Ultimate Axivion, no timeout, no signal, no counter pair and no family
\* matched: the verdict is UNKNOWN when valid-memcleanup is declared in some
\* line, and TRUE_PROP otherwise.
C5_AxivionFallback ==
    ( /\ AxivionClassified
      /\ ~call.isTimeout
      /\ call.returnsignal = 0
      /\ \A k \in 1..Len(call.output) : ~CounterPairAt(call.output, k)
      /\ ~C5_FamilyMatched(call.output) ) =>
        ret = Return(IF \E k \in 1..Len(call.output) :
                            Contains("LTL(G valid-memcleanup)", call.output[k])
                     THEN RESULT_UNKNOWN ELSE RESULT_TRUE_PROP)

\* valid-memcleanup is declared and the tool reports nothing.
C5_Witness ==
    /\ AxivionClassified
    /\ ~call.isTimeout
    /\ call.returnsignal = 0
    /\ call.output = <<"CHECK( init(main()), LTL(G valid-memcleanup) )", "result: unknown">>
    /\ ret = Return(RESULT_UNKNOWN)

AxivionScanned == AxivionClassified /\ ~call.isTimeout /\ call.returnsignal = 0

\* Lines k and k + 1 of the output are the two counters of cafeCC.
C16_Pair(k) ==
    /\ k + 1 <= Len(call.output)
    /\ Contains("Number of compiler messages:", call.output[k])
    /\ Contains("Number of errors:", call.output[k + 1])

\* The text after "Number of errors:" on line k + 1 is the number n.
C16_Count(k, n) ==
    LET c == PyInt(SplitColonField1(call.output[k + 1]))
    IN  c.kind = "return" /\ c.value = n

\* C16: no timeout, no signal: when a "Number of compiler messages:" line is
\* followed at once by a "Number of errors:" line with a count N that is not
\* 0, the verdict is "cafeCC errors: N" whatever the other lines match; and
\* a "cafeCC errors:" verdict is given only for such a pair with N not 0.
C16_CounterDiagnostic ==
    AxivionScanned =>
        /\ \A k \in 1..Len(call.output) : \A n \in 1..9 :
              (C16_Pair(k) /\ C16_Count(k, n)) =>
                  ret = Return("cafeCC errors: " \o ToString(n))
        /\ (ret.kind = "return" /\ StartsWith(ret.value, "cafeCC errors:")) =>
              \E k \in 1..Len(call.output) : \E n \in 1..9 :
                  /\ C16_Pair(k)
                  /\ C16_Count(k, n)
                  /\ ret.value = "cafeCC errors: " \o ToString(n)

\* Some line of the output of the call holds a message of the family.
C17_SomeLine(Family(_)) == \E k \in 1..Len(call.output) : Family(call.output[k])

C17_Declared(property) ==
    \E k \in 1..Len(call.output) : Contains("LTL(G " \o property \o ")", call.output[k])

\* C17 as stated: a family's verdict is given only when its property is
\* declared in some line of the output; for FALSE_PROP, when some property is.
C17_PropertyGating ==
    (AxivionScanned /\ ret.kind = "return") =>
        /\ ret.value = RESULT_FALSE_DEREF =>
              C17_Declared("valid-deref") /\ C17_SomeLine(DerefError)
        /\ ret.value = RESULT_FALSE_FREE =>
              C17_Declared("valid-free") /\ C17_SomeLine(FreeError)
        /\ ret.value = RESULT_FALSE_MEMTRACK =>
              C17_Declared("valid-memtrack") /\ C17_SomeLine(MemtrackError)
        /\ ret.value = RESULT_FALSE_PROP =>
              /\ \E p \in {"valid-deref", "valid-free", "valid-memtrack", "valid-memcleanup"} :
                    C17_Declared(p)
              /\ C17_SomeLine(re_other_errors_match)

\* C17 amended: FALSE_DEREF, FALSE_FREE and FALSE_MEMTRACK are given only
\* when the property of the family is declared in some line, before or after
\* the line with the message; a declared valid-deref makes a message of its
\* family on the first line give FALSE_DEREF.  The stack-object pattern has
\* no property: a first line that matches it and no evaluated family gives
\* FALSE_PROP, declarations or not.
C17_GatedFamilies ==
    (AxivionScanned /\ ret.kind = "return") =>
        /\ ret.value = RESULT_FALSE_DEREF =>
              C17_Declared("valid-deref") /\ C17_SomeLine(DerefError)
        /\ ret.value = RESULT_FALSE_FREE =>
              C17_Declared("valid-free") /\ C17_SomeLine(FreeError)
        /\ ret.value = RESULT_FALSE_MEMTRACK =>
              C17_Declared("valid-memtrack") /\ C17_SomeLine(MemtrackError)
        /\ ret.value = RESULT_FALSE_PROP => C17_SomeLine(re_other_errors_match)
        /\ ( /\ Len(call.output) > 0
             /\ ~C16_Pair(1)
             /\ C17_Declared("valid-deref")
             /\ DerefError(call.output[1]) ) => ret.value = RESULT_FALSE_DEREF
        /\ ( /\ Len(call.output) > 0
             /\ ~C16_Pair(1)
             /\ re_other_errors_match(call.output[1])
             /\ ~(C17_Declared("valid-deref") /\ DerefError(call.output[1]))
             /\ ~(C17_Declared("valid-free") /\ FreeError(call.output[1]))
             /\ ~(C17_Declared("valid-memtrack") /\ MemtrackError(call.output[1])) ) =>
                ret.value = RESULT_FALSE_PROP

\* The message of the valid-deref family on the first line, the declaration
\* of the property on the second.
C17_Witness ==
    /\ AxivionScanned
    /\ call.output = <<"a.c:4: error: Pointer is NULL at dereference",
                       "CHECK( init(main()), LTL(G valid-deref) )">>
    /\ ret = Return(RESULT_FALSE_DEREF)

\* The verdict of line k: that of the first family, in the order deref,
\* free, memtrack, stack object, that is evaluated and matches; None when
\* there is no such family.
C18_LineVerdict(k) ==
    LET line == call.output[k]
    IN  IF C17_Declared("valid-deref") /\ DerefError(line) THEN Some(RESULT_FALSE_DEREF)
        ELSE IF C17_Declared("valid-free") /\ FreeError(line) THEN Some(RESULT_FALSE_FREE)
        ELSE IF C17_Declared("valid-memtrack") /\ MemtrackError(line)
             THEN Some(RESULT_FALSE_MEMTRACK)
        ELSE IF re_other_errors_match(line) THEN Some(RESULT_FALSE_PROP)
        ELSE None

CmdlineOps == {"axivion.cmdline", "smtinterpol.cmdline"}

\* The name of the tool-info module a call is made on.
CmdlineName == IF call.op = "axivion.cmdline" THEN axivion_name ELSE smtinterpol_name

\* C6: cmdline of Ultimate Axivion and of SMTInterpol, more than one input
\* file: the call raises UnsupportedFeatureException with a message that
\* holds the tool's name and the number of files, and creates no file.
C6_MultiFileUnsupported ==
    [][ (pc = "called" /\ call.op \in CmdlineOps /\ Len(call.tasks) > 1) =>
            /\ ret'.kind = "raise"
            /\ ret'.exc = "UnsupportedFeatureException"
            /\ Contains(CmdlineName, ret'.msg)
            /\ Contains(ToString(Len(call.tasks)), ret'.msg)
            /\ fs' = fs ]_vars

\* xs occurs in ys as a contiguous run.
C7_Run(xs, ys) == \E k \in 1..(Len(ys) - Len(xs) + 1) : SubSeq(ys, k, k + Len(xs) - 1) = xs

CmdlineReturned ==
    /\ pc = "done"
    /\ call.op \in CmdlineOps
    /\ Len(call.tasks) = 1
    /\ ret.kind = "return"

C15_CmdlinePure ==
    [][ (call.op \in {"any.cmdline", "smtinterpol.cmdline", "axivion.cmdline"}
            /\ pc' = "done") =>
            /\ fs' = fs
            /\ pc = "done" => ret' = ret ]_vars

(***************************************************************************)
(* Properties of the value extractor.                                      *)
(***************************************************************************)
Extracted == pc = "done" /\ call.op = "smtinterpol.get_value_from_output"

\* The descriptor of the call parses to an object.
DescriptorIsObject ==
    /\ json_loads(call.identifier).kind = "return"
    /\ json_loads(call.identifier).value.t = "dict"

\* The members of the descriptor of the call.
Descriptor == json_loads(call.identifier).value.v

\* The mode of the descriptor, FirstMatch when Type is omitted.
DescriptorMode ==
    IF "Type" \notin DOMAIN Descriptor THEN "FirstMatch"
    ELSE IF Descriptor["Type"].t = "str" THEN Descriptor["Type"].v
    ELSE "not a string"

\* The descriptor is valid: an object with a mode of FirstMatch or LastMatch
\* and a pattern that compiles and has a capturing group.
DescriptorValid ==
    /\ DescriptorIsObject
    /\ DescriptorMode \in {"FirstMatch", "LastMatch"}
    /\ "Expr" \in DOMAIN Descriptor
    /\ Descriptor["Expr"].t = "str"
    /\ re_compile(Descriptor["Expr"].v).kind = "return"
    /\ re_compile(Descriptor["Expr"].v).value.ngroups >= 1

Reverse(s) == [k \in 1..Len(s) |-> s[Len(s) - k + 1]]

\* C8: the result in mode LastMatch on the output is the result in mode
\* FirstMatch, same pattern, on the reversed output.
C8_LastMatchIsFirstMatchOfReverse ==
    (Extracted /\ DescriptorValid /\ DescriptorMode = "LastMatch") =>
        ret = get_value_parsed(Reverse(call.output),
                  [t |-> "dict",
                   v |-> [Descriptor EXCEPT !["Type"] = [t |-> "str", v |-> "FirstMatch"]]]).ret

\* Mode LastMatch, the pattern matching on the first and on the last of
\* three lines.
C8_Witness ==
    /\ Extracted
    /\ DescriptorValid
    /\ DescriptorMode = "LastMatch"
    /\ call.output = <<"time=5", "sat", "time=9 time=12">>
    /\ ret = Return(Some("9"))

\* C9: a descriptor that does not parse, that has no Expr or whose Type is
\* neither FirstMatch nor LastMatch: the call raises the one error of the
\* validation of descriptors, AssertionError, and scans no line.
C9_DescriptorError ==
    ( /\ Extracted
      /\ \/ json_loads(call.identifier).kind = "raise"
         \/ DescriptorIsObject /\ "Expr" \notin DOMAIN Descriptor
         \/ DescriptorIsObject /\ DescriptorMode \notin {"FirstMatch", "LastMatch"} ) =>
        /\ ret.kind = "raise"
        /\ ret.exc = "AssertionError"
        /\ scanned = 0

\* The lines of the output of the call on which the pattern matches.
C10_Matching ==
    { k \in 1..Len(call.output) :
        re_search(re_compile(Descriptor["Expr"].v).value, call.output[k]) # None }

\* The first group of the match on line k.
C10_Group(k) == re_search(re_compile(Descriptor["Expr"].v).value, call.output[k])[1].groups[1]

\* C10: valid descriptor: the result is the first group of the match on the
\* earliest matching line in mode FirstMatch (also when Type is omitted), on
\* the latest one in mode LastMatch, and None, not an error, when no line
\* matches.
C10_FirstAndLastMatch ==
    (Extracted /\ DescriptorValid) =>
        IF C10_Matching = {} THEN ret = Return(None)
        ELSE LET k == IF DescriptorMode = "FirstMatch"
                      THEN CHOOSE m \in C10_Matching : \A n \in C10_Matching : m <= n
                      ELSE CHOOSE m \in C10_Matching : \A n \in C10_Matching : m >= n
             IN  ret = Return(C10_Group(k))

\* Type omitted, the pattern matching on the second and on the third line.
C10_Witness ==
    /\ Extracted
    /\ DescriptorValid
    /\ "Type" \notin DOMAIN Descriptor
    /\ call.output = <<"sat", "time=5", "time=9 time=12">>
    /\ ret = Return(Some("5"))

(***************************************************************************)
(* Properties of the resolution of the executable.                         *)
(***************************************************************************)
\* C14: executable() of the pass-through tool raises
\* MissingEnvironmentVariable when BENCHEXEC_ANYTOOL_EXE is not set or is
\* empty, and returns the value of the variable otherwise.
C14_AnyExecutable ==
    (pc = "done" /\ call.op = "any.executable") =>
        IF call.environ = None \/ call.environ = Some("")
        THEN ret.kind = "raise" /\ ret.exc = "MissingEnvironmentVariable"
        ELSE ret = Return(call.environ[1])

(***************************************************************************)
(* Claims about version().                                                 *)
(***************************************************************************)
VersionOps == {"axivion.version", "smtinterpol.version"}

\* The call that has just returned ran its probe and the probe failed: a
\* command could not be launched, exited nonzero or printed no version text,
\* or ULTIMATE_JAVA or ULTIMATE_DIR was unset.
ProbeBad(probe, text) ==
    \/ probe.kind = "oserror"
    \/ probe.kind = "exit" /\ probe.returncode # 0
    \/ probe.kind = "exit" /\ ~Contains(text, IF "stdout" \in DOMAIN probe
                                              THEN probe.stdout ELSE probe.stderr)

ProbeFailed ==
    /\ pc = "done"
    /\ call.op \in VersionOps
    /\ ~call.hit
    /\ IF call.op = "axivion.version"
       THEN \/ call.java = None
            \/ call.dir = None
            \/ ProbeBad(call.probe1, "(")
            \/ ProbeBad(call.probe2, "This is Ultimate ")
       ELSE ProbeBad(call.probe, "SMTInterpol")

\* C12: a version() call whose probe failed returns the empty string and
\* raises nothing, on the Axivion adapter and on the SMTInterpol adapter.
C12_ProbeFailureGivesEmpty == ProbeFailed => ret = Return("")

AdapterOf(op) == IF op = "axivion.version" THEN "axivion" ELSE "smtinterpol"

\* C13: over a sequence of version() calls on one adapter instance, whatever
\* the executables and whether earlier calls returned or raised, the probe
\* is executed at most once and each later call gives what the first gave.
C13_VersionMemoized ==
    /\ \A a \in Adapters : probes[a] <= 1
    /\ (pc = "done" /\ call.op \in VersionOps) => Some(ret) = first[AdapterOf(call.op)]

====
